---------------------------- MODULE Spec2Model ----------------------------
(***************************************************************************)
(* A model of backend/server.py: the AI endpoints of the artisan           *)
(* marketplace (request validation, persistence lookups, the single        *)
(* LlmChat.send_message call, the markdown-fence/JSON normalisation and     *)
(* the response envelopes), together with the write routes that share the  *)
(* database with them.                                                     *)
(*                                                                         *)
(* Text is a sequence of one-character strings, so that strip(),           *)
(* startswith(), slicing and json.loads() are computed character by        *)
(* character as Python computes them.                                      *)
(* Each element is one character.                                          *)
(***************************************************************************)
EXTENDS Integers, Sequences, FiniteSets, TLC

(***************************************************************************)
(* Python str primitives used by the handlers.                             *)
(***************************************************************************)

\* The characters str.strip() removes that occur in the modelled alphabet.
PyWhitespace == {" ", "\n", "\t"}

\* s[n:]  (Python clamps the slice to the string)
SliceFrom(s, n) == IF n >= Len(s) THEN <<>> ELSE SubSeq(s, n + 1, Len(s))

\* s[:-n]  for n > 0
SliceDropLast(s, n) == IF n >= Len(s) THEN <<>> ELSE SubSeq(s, 1, Len(s) - n)

\* s[:n]
SliceTo(s, n) == IF n >= Len(s) THEN s ELSE SubSeq(s, 1, n)

StartsWith(s, p) == Len(s) >= Len(p) /\ SubSeq(s, 1, Len(p)) = p

EndsWith(s, p) == Len(s) >= Len(p) /\ SubSeq(s, Len(s) - Len(p) + 1, Len(s)) = p

RECURSIVE LStrip(_)
LStrip(s) == IF s # <<>> /\ Head(s) \in PyWhitespace THEN LStrip(Tail(s)) ELSE s

RECURSIVE RStrip(_)
RStrip(s) ==
    IF s # <<>> /\ s[Len(s)] \in PyWhitespace
    THEN RStrip(SubSeq(s, 1, Len(s) - 1))
    ELSE s

\* str.strip()
Strip(s) == RStrip(LStrip(s))

(***************************************************************************)
(* json.loads, as CPython's json.decoder / json.scanner compute it, on     *)
(* the grammar the modelled alphabet can spell: objects, arrays, strings   *)
(* without escapes, integers, true/false/null and the NaN literal that     *)
(* Python accepts.  A decoded value is                                     *)
(*   [t: its type, a: the text of an atom, keys: an object's keys,         *)
(*    c: the children of an array or object]                               *)
(* An object keeps its keys in insertion order; a repeated key keeps its   *)
(* first position and its last value, as a Python dict does.               *)
(***************************************************************************)

JsonWhitespace == {" ", "\t", "\n", "\r"}

Digits == {"0", "1", "2", "3", "4", "5", "6", "7", "8", "9"}

\* Characters py_scanstring refuses inside a string in strict mode.
ControlChars == {"\n", "\t", "\r"}

VAtom(t, a) == [t |-> t, a |-> a, keys |-> <<>>, c |-> <<>>]

VString(s) == VAtom("string", s)

VNone == VAtom("null", <<>>)

VArray(c) == [t |-> "array", a |-> <<>>, keys |-> <<>>, c |-> c]

VObject(keys, c) == [t |-> "object", a |-> <<>>, keys |-> keys, c |-> c]

\* The outcome of a scan: ok with the value and the index after it, or
\* a JSONDecodeError.
ScanOk(v, i) == [ok |-> TRUE, v |-> v, i |-> i]

ScanError == [ok |-> FALSE, v |-> VNone, i |-> 0]

CharAt(s, i) == IF i >= 1 /\ i <= Len(s) THEN s[i] ELSE "EOF"

\* s[i:i+len(p)] == p  (1-based i)
MatchAt(s, i, p) == i + Len(p) - 1 <= Len(s) /\ SubSeq(s, i, i + Len(p) - 1) = p

\* WHITESPACE.match(s, i).end()
RECURSIVE SkipWs(_, _)
SkipWs(s, i) == IF CharAt(s, i) \in JsonWhitespace THEN SkipWs(s, i + 1) ELSE i

\* The index after the run of digits starting at i.
RECURSIVE DigitsEnd(_, _)
DigitsEnd(s, i) == IF CharAt(s, i) \in Digits THEN DigitsEnd(s, i + 1) ELSE i

\* NUMBER_RE.match: -?(0|[1-9][0-9]*), the integer part of the pattern.
ScanNumber(s, i) ==
    LET j == IF CharAt(s, i) = "-" THEN i + 1 ELSE i
        k == IF CharAt(s, j) = "0" THEN j + 1
             ELSE IF CharAt(s, j) \in Digits THEN DigitsEnd(s, j)
             ELSE j
    IN IF k = j THEN ScanError ELSE ScanOk(VAtom("int", SubSeq(s, i, k - 1)), k)

\* py_scanstring from the index after the opening quote: the index of the
\* closing quote, or 0 (unterminated string, or a control character).
RECURSIVE StringEnd(_, _)
StringEnd(s, i) ==
    IF i > Len(s) THEN 0
    ELSE IF s[i] = "\"" THEN i
    ELSE IF s[i] \in ControlChars THEN 0
    ELSE StringEnd(s, i + 1)

ScanString(s, i) ==
    LET e == StringEnd(s, i + 1)
    IN IF e = 0 THEN ScanError ELSE ScanOk(VString(SubSeq(s, i + 1, e - 1)), e + 1)

\* dict[key] = value on the (keys, values) pair of sequences.
RECURSIVE KeyIndex(_, _, _)
KeyIndex(keys, k, n) ==
    IF n > Len(keys) THEN 0
    ELSE IF keys[n] = k THEN n
    ELSE KeyIndex(keys, k, n + 1)

DictSet(d, k, v) ==
    LET n == KeyIndex(d.keys, k, 1)
    IN IF n = 0
       THEN VObject(Append(d.keys, k), Append(d.c, v))
       ELSE VObject(d.keys, [d.c EXCEPT ![n] = v])

RECURSIVE ScanOnce(_, _)
RECURSIVE ScanMembers(_, _, _)
RECURSIVE ScanElements(_, _, _)

\* JSONObject after "{" and any whitespace: i is at a key's opening quote.
ScanMembers(s, i, d) ==
    IF CharAt(s, i) # "\"" THEN ScanError
    ELSE
    LET key == ScanString(s, i)
    IN IF ~key.ok THEN ScanError
       ELSE
       LET colon == SkipWs(s, key.i)
       IN IF CharAt(s, colon) # ":" THEN ScanError
          ELSE
          LET val == ScanOnce(s, SkipWs(s, colon + 1))
          IN IF ~val.ok THEN ScanError
             ELSE
             LET d2 == DictSet(d, key.v.a, val.v)
                 e == SkipWs(s, val.i)
             IN IF CharAt(s, e) = "}" THEN ScanOk(d2, e + 1)
                ELSE IF CharAt(s, e) = "," THEN ScanMembers(s, SkipWs(s, e + 1), d2)
                ELSE ScanError

\* JSONArray after "[" and any whitespace: i is at an element.
ScanElements(s, i, c) ==
    LET val == ScanOnce(s, i)
    IN IF ~val.ok THEN ScanError
       ELSE
       LET c2 == Append(c, val.v)
           e == SkipWs(s, val.i)
       IN IF CharAt(s, e) = "]" THEN ScanOk(VArray(c2), e + 1)
          ELSE IF CharAt(s, e) = "," THEN ScanElements(s, SkipWs(s, e + 1), c2)
          ELSE ScanError

\* scanner.py_make_scanner._scan_once
ScanOnce(s, i) ==
    LET ch == CharAt(s, i)
    IN IF ch = "\"" THEN ScanString(s, i)
       ELSE IF ch = "{" THEN
            LET j == SkipWs(s, i + 1)
            IN IF CharAt(s, j) = "}" THEN ScanOk(VObject(<<>>, <<>>), j + 1)
               ELSE ScanMembers(s, j, VObject(<<>>, <<>>))
       ELSE IF ch = "[" THEN
            LET j == SkipWs(s, i + 1)
            IN IF CharAt(s, j) = "]" THEN ScanOk(VArray(<<>>), j + 1)
               ELSE ScanElements(s, j, <<>>)
       ELSE IF MatchAt(s, i, <<"n", "u", "l", "l">>) THEN ScanOk(VNone, i + 4)
       ELSE IF MatchAt(s, i, <<"t", "r", "u", "e">>) THEN ScanOk(VAtom("true", <<>>), i + 4)
       ELSE IF MatchAt(s, i, <<"f", "a", "l", "s", "e">>) THEN ScanOk(VAtom("false", <<>>), i + 5)
       ELSE IF ScanNumber(s, i).ok THEN ScanNumber(s, i)
       ELSE IF MatchAt(s, i, <<"N", "a", "N">>) THEN ScanOk(VAtom("nan", <<>>), i + 3)
       ELSE ScanError

\* json.loads(s): JSONDecoder.decode.  ok = FALSE is json.JSONDecodeError
\* ("Expecting value", "Extra data", ...).
JsonLoads(s) ==
    LET r == ScanOnce(s, SkipWs(s, 1))
    IN IF ~r.ok THEN ScanError
       ELSE IF SkipWs(s, r.i) # Len(s) + 1 THEN ScanError
       ELSE ScanOk(r.v, r.i)

(***************************************************************************)
(* base64.b64encode(image_bytes).decode('utf-8')                           *)
(***************************************************************************)

B64Alphabet ==
    << "A", "B", "C", "D", "E", "F", "G", "H", "I", "J", "K", "L", "M",
       "N", "O", "P", "Q", "R", "S", "T", "U", "V", "W", "X", "Y", "Z",
       "a", "b", "c", "d", "e", "f", "g", "h", "i", "j", "k", "l", "m",
       "n", "o", "p", "q", "r", "s", "t", "u", "v", "w", "x", "y", "z",
       "0", "1", "2", "3", "4", "5", "6", "7", "8", "9", "+", "/" >>

B64Char(n) == B64Alphabet[n + 1]

RECURSIVE B64Encode(_)
B64Encode(b) ==
    IF Len(b) = 0 THEN <<>>
    ELSE IF Len(b) = 1 THEN
        << B64Char(b[1] \div 4), B64Char((b[1] % 4) * 16), "=", "=" >>
    ELSE IF Len(b) = 2 THEN
        << B64Char(b[1] \div 4),
           B64Char((b[1] % 4) * 16 + b[2] \div 16),
           B64Char((b[2] % 16) * 4), "=" >>
    ELSE
        << B64Char(b[1] \div 4),
           B64Char((b[1] % 4) * 16 + b[2] \div 16),
           B64Char((b[2] % 16) * 4 + b[3] \div 64),
           B64Char(b[3] % 64) >> \o B64Encode(SliceFrom(b, 3))

(***************************************************************************)
(* The response clean-up and the envelopes of the two endpoints that       *)
(* decode the backend's answer (analyze-product-image and                  *)
(* generate-story-with-image).                                             *)
(***************************************************************************)

\* The grave accent U+0060: the one character of the alphabet that a TLA+
\* string cannot spell, so it is named.
Tick == "GRAVE"

\* '```json'
FenceOpen == <<Tick, Tick, Tick, "j", "s", "o", "n">>

\* '```'
FenceClose == <<Tick, Tick, Tick>>

\* clean_response[7:]
FenceOpenLen == 7

\* clean_response[:-3]
FenceCloseLen == 3

\* image_base64[:100]
PreviewLen == 100

\* The clean-up with the opening marker cut as if it were three characters.
CleanResponseShortCut(response) ==
    LET stripped == Strip(response)
        opened == IF StartsWith(stripped, FenceOpen)
                  THEN SliceFrom(stripped, FenceCloseLen)
                  ELSE stripped
        closed == IF EndsWith(opened, FenceClose)
                  THEN SliceDropLast(opened, FenceCloseLen)
                  ELSE opened
    IN Strip(closed)

\* A clean-up that removes the two markers only when both are there.
CleanResponseBothOrNone(response) ==
    LET stripped == Strip(response)
    IN IF StartsWith(stripped, FenceOpen) /\ EndsWith(stripped, FenceClose)
       THEN Strip(SliceDropLast(SliceFrom(stripped, FenceOpenLen), FenceCloseLen))
       ELSE stripped

\* The text handed to json.loads.
CleanResponse(response) ==
    LET stripped == Strip(response)
        opened == IF StartsWith(stripped, FenceOpen)
                  THEN SliceFrom(stripped, FenceOpenLen)
                  ELSE stripped
        closed == IF EndsWith(opened, FenceClose)
                  THEN SliceDropLast(opened, FenceCloseLen)
                  ELSE opened
    IN Strip(closed)

\* {"raw_response": response}
RawResponseKey == <<"r", "a", "w", "_", "r", "e", "s", "p", "o", "n", "s", "e">>

\* The fallback built from the cleaned text instead of the text received.
RawResponseCleaned(response) ==
    VObject(<<RawResponseKey>>, <<VString(Strip(response))>>)

RawResponse(response) == VObject(<<RawResponseKey>>, <<VString(response)>>)

\* f"data:image/jpeg;base64,{image_base64[:100]}..."
DataUrlPrefix ==
    << "d", "a", "t", "a", ":", "i", "m", "a", "g", "e", "/", "j", "p", "e", "g",
       ";", "b", "a", "s", "e", "6", "4", "," >>

ImagePreview(image_base64) ==
    VString(DataUrlPrefix \o SliceTo(image_base64, PreviewLen) \o <<".", ".", ".">>)

\* A key the returned dict does not hold.
VAbsent == VAtom("absent", <<>>)

\* A returned JSON body: the payload under its endpoint's key, the image
\* preview key (VAbsent when the dict has none), the echoed request value
\* (platform or user_id) and "status".
Body(key, payload, image, echo, status) ==
    [key |-> key, payload |-> payload, image |-> image, echo |-> echo,
     status |-> status, error |-> ""]

NoBody == [key |-> "", payload |-> VAbsent, image |-> VAbsent, echo |-> "",
           status |-> "", error |-> ""]

\* The try/except json.JSONDecodeError of analyze_uploaded_product_image.
AnalyzeImageBody(response, image_base64) ==
    LET ai_data == JsonLoads(CleanResponse(response))
    IN IF ai_data.ok
       THEN Body("ai_analysis", ai_data.v, ImagePreview(image_base64), "", "success")
       ELSE Body("ai_analysis", RawResponse(response), ImagePreview(image_base64),
                 "", "success")

\* The try/except json.JSONDecodeError of generate_story_with_image;
\* has_b64 = FALSE is image_base64 = None.  An empty str is falsy.
StoryImageBody(response, has_b64, image_base64) ==
    LET story_data == JsonLoads(CleanResponse(response))
        truthy == has_b64 /\ image_base64 # <<>>
    IN IF story_data.ok
       THEN Body("story_content", story_data.v,
                 IF truthy THEN ImagePreview(image_base64) ELSE VAbsent,
                 "", "success")
       ELSE Body("story_content", RawResponse(response),
                 IF truthy THEN ImagePreview(image_base64) ELSE VNone,
                 "", "success")

(***************************************************************************)
(* Errors and responses.                                                   *)
(***************************************************************************)

\* A response: the HTTP status, the detail of an HTTPException ("" for a
\* returned dict) and the returned dict (NoBody for an HTTPException).
Returned(body) == [code |-> 200, detail |-> "", body |-> body]

HTTPException(status_code, detail) ==
    [code |-> status_code, detail |-> detail, body |-> NoBody]

NoResponse == [code |-> 0, detail |-> "", body |-> NoBody]

\* str(e) of a starlette HTTPException
StrHTTPException(e) == ToString(e.code) \o ": " \o e.detail

\* str(e) of the AttributeError raised by None.startswith
NoneStartswith == "'NoneType' object has no attribute 'startswith'"

\* except Exception as e: raise HTTPException(status_code=500,
\*                                            detail=f"<what> failed: {str(e)}")
ExceptException(what, str_e) == HTTPException(500, what \o " failed: " \o str_e)

\* The 422 FastAPI answers when the request body does not validate.
RequestValidationError == HTTPException(422, "Unprocessable Entity")

(***************************************************************************)
(* Requests.                                                               *)
(***************************************************************************)

\* How many requests a behaviour holds; all of them may be in flight at once.
MaxRequests == 2

Requests == 1 .. MaxRequests

\* An UploadFile: its declared content type (None when the part names
\* none) and its bytes.
UploadFile(content_type, data) ==
    [present |-> TRUE, has_type |-> TRUE, content_type |-> content_type, data |-> data]

UploadFileNoType(data) ==
    [present |-> TRUE, has_type |-> FALSE, content_type |-> <<>>, data |-> data]

\* image = None
NoUpload == [present |-> FALSE, has_type |-> FALSE, content_type |-> <<>>, data |-> <<>>]

\* The three required str fields of AIStoryRequest as they arrive in the
\* JSON body: "missing" (absent or null), "empty" ("") or "present".
StoryFields(artisan_name, craft_type, simple_text) ==
    [artisan_name |-> artisan_name, craft_type |-> craft_type, simple_text |-> simple_text]

PresentFields == StoryFields("present", "present", "present")

\* pydantic's validation of AIStoryRequest: a str field is required, and
\* any str, the empty one too, satisfies it.
AIStoryRequestValid(f) ==
    /\ f.artisan_name # "missing"
    /\ f.craft_type # "missing"
    /\ f.simple_text # "missing"

\* The parameters of a request; a handler reads only its own.
Input(image, id, email, platform, fields) ==
    [image |-> image, id |-> id, email |-> email, platform |-> platform, fields |-> fields]

NoInput == Input(NoUpload, 0, "", "", PresentFields)

VARIABLES
    users,      \* db.users: the stored user documents
    products,   \* db.products
    stories,    \* db.stories
    req         \* per request: endpoint, position, locals, response

vars == <<users, products, stories, req>>

db == <<users, products, stories>>

\* A request that has not arrived yet.
Idle ==
    [ep |-> "", pc |-> "idle", in |-> NoInput,
     session |-> 0,             \* the session_id of its LlmChat, 0: none made
     calls |-> 0,               \* chat.send_message calls made
     has_b64 |-> FALSE,         \* image_base64 is not None
     image_base64 |-> <<>>,
     n_products |-> 0,          \* len(products) in the recommendation prompt
     found |-> FALSE,           \* find_one returned a document
     answered |-> "",           \* how send_message ended: "returned", "raised"
     response |-> <<>>,         \* the text send_message returned
     clean_response |-> <<>>,   \* the text handed to json.loads
     raised |-> "",             \* str(e) of the exception it raised
     resp |-> NoResponse]

\* uuid.uuid4(): 122 random bits.  Two draws are taken to differ; a request
\* draws at most once, and the value request r draws is named r (the
\* documents the database starts with carry the id 0).
Uuid4(r) == r

\* One LlmChat made at start-up and used by every request.
GetLlmChatShared(r) == Uuid4(1)

\* get_llm_chat(): the session_id of the new LlmChat.
GetLlmChat(r) == Uuid4(r)

\* The request is at "response = await chat.send_message(message)" with
\* its chat's session_id.
SendMessage(q, session, ep, in, has_b64, image_base64, n_products) ==
    [q EXCEPT !.ep = ep, !.pc = "send_message", !.in = in,
              !.session = session, !.calls = q.calls + 1,
              !.has_b64 = has_b64, !.image_base64 = image_base64,
              !.n_products = n_products]

\* The request ends with this response.
Finish(q, ep, in, resp) == [q EXCEPT !.ep = ep, !.pc = "done", !.in = in, !.resp = resp]

ImagePrefix == <<"i", "m", "a", "g", "e", "/">>

(***************************************************************************)
(* The AI endpoints, from the arrival of the request to the first await    *)
(* that another request can interleave with (a database query, or          *)
(* chat.send_message), or to the response when the request is rejected.    *)
(***************************************************************************)

\* analyze_uploaded_product_image without its content-type check.
AnalyzeUploadedProductImageUnchecked(r, image) ==
    LET ep == "analyze-product-image"
        in == Input(image, 0, "", "", PresentFields)
    IN
    /\ req[r].pc = "idle"
    /\ UNCHANGED db
    /\ IF ~image.present
       THEN req' = [req EXCEPT ![r] = Finish(@, ep, in, RequestValidationError)]
       ELSE req' = [req EXCEPT ![r] =
                    SendMessage(@, GetLlmChat(r), ep, in, TRUE, B64Encode(image.data), 0)]

\* POST /ai/analyze-product-image
AnalyzeUploadedProductImage(r, image) ==
    LET ep == "analyze-product-image"
        in == Input(image, 0, "", "", PresentFields)
    IN
    /\ req[r].pc = "idle"
    /\ UNCHANGED db
    /\ IF ~image.present THEN
            /\ req' = [req EXCEPT ![r] = Finish(@, ep, in, RequestValidationError)]
       ELSE IF ~image.has_type THEN
            /\ req' = [req EXCEPT ![r] =
                    Finish(@, ep, in, ExceptException("AI analysis", NoneStartswith))]
       ELSE IF ~StartsWith(image.content_type, ImagePrefix) THEN
            /\ req' = [req EXCEPT ![r] =
                    Finish(@, ep, in,
                           ExceptException("AI analysis",
                               StrHTTPException(HTTPException(400, "File must be an image"))))]
       ELSE /\ req' = [req EXCEPT ![r] =
                    SendMessage(@, GetLlmChat(r), ep, in, TRUE, B64Encode(image.data), 0)]

\* POST /ai/analyze-product
AnalyzeProductImage(r) ==
    /\ req[r].pc = "idle"
    /\ UNCHANGED db
    /\ req' = [req EXCEPT ![r] = SendMessage(@, GetLlmChat(r), "analyze-product", NoInput, FALSE, <<>>, 0)]

\* POST /ai/generate-story-with-image: get_llm_chat() runs before the image
\* is looked at, so a rejected request has made a chat as well.
GenerateStoryWithImage(r, image) ==
    LET ep == "generate-story-with-image"
        in == Input(image, 0, "", "", PresentFields)
        chat == [req[r] EXCEPT !.session = GetLlmChat(r)]
    IN
    /\ req[r].pc = "idle"
    /\ UNCHANGED db
    /\ IF ~image.present THEN
            req' = [req EXCEPT ![r] = SendMessage(@, GetLlmChat(r), ep, in, FALSE, <<>>, 0)]
       ELSE IF ~image.has_type THEN
            req' = [req EXCEPT ![r] =
                    Finish(chat, ep, in, ExceptException("Story generation", NoneStartswith))]
       ELSE IF ~StartsWith(image.content_type, ImagePrefix) THEN
            req' = [req EXCEPT ![r] =
                    Finish(chat, ep, in,
                           ExceptException("Story generation",
                               StrHTTPException(HTTPException(400, "File must be an image"))))]
       ELSE req' = [req EXCEPT ![r] =
                    SendMessage(@, GetLlmChat(r), ep, in, TRUE, B64Encode(image.data), 0)]

\* POST /ai/generate-story
GenerateArtisanStory(r, fields) ==
    LET ep == "generate-story"
        in == Input(NoUpload, 0, "", "", fields)
    IN
    /\ req[r].pc = "idle"
    /\ UNCHANGED db
    /\ IF ~AIStoryRequestValid(fields) THEN
            /\ req' = [req EXCEPT ![r] = Finish(@, ep, in, RequestValidationError)]
       ELSE /\ req' = [req EXCEPT ![r] = SendMessage(@, GetLlmChat(r), ep, in, FALSE, <<>>, 0)]

\* generate_social_media_content without its "if not product" check.
GenerateSocialMediaContentUnchecked(r, product_id, platform) ==
    LET ep == "generate-social-content"
        in == Input(NoUpload, product_id, "", platform, PresentFields)
        product == {p \in products : p.id = product_id}
    IN
    /\ req[r].pc = "idle"
    /\ UNCHANGED db
    /\ req' = [req EXCEPT ![r] =
            SendMessage([@ EXCEPT !.found = (product # {})], GetLlmChat(r), ep, in,
                        FALSE, <<>>, 0)]

\* POST /ai/generate-social-content
GenerateSocialMediaContent(r, product_id, platform) ==
    LET ep == "generate-social-content"
        in == Input(NoUpload, product_id, "", platform, PresentFields)
        product == {p \in products : p.id = product_id}
    IN
    /\ req[r].pc = "idle"
    /\ UNCHANGED db
    /\ IF product = {} THEN
            /\ req' = [req EXCEPT ![r] =
                    Finish(@, ep, in,
                           ExceptException("Social content generation",
                               StrHTTPException(HTTPException(404, "Product not found"))))]
       ELSE /\ req' = [req EXCEPT ![r] =
                    SendMessage([@ EXCEPT !.found = TRUE], GetLlmChat(r), ep, in, FALSE, <<>>, 0)]

\* POST /ai/translate
TranslateContent(r) ==
    /\ req[r].pc = "idle"
    /\ UNCHANGED db
    /\ req' = [req EXCEPT ![r] = SendMessage(@, GetLlmChat(r), "translate", NoInput, FALSE, <<>>, 0)]

\* db.products.find().limit(10).to_list(10)
RecommendationLimit == 10

\* GET /ai/recommendations/{user_id}: up to the answer of db.users.find_one
GetPersonalizedRecommendations(r, user_id) ==
    LET ep == "recommendations"
        in == Input(NoUpload, user_id, "", "", PresentFields)
        user == {u \in users : u.id = user_id}
    IN
    /\ req[r].pc = "idle"
    /\ UNCHANGED db
    /\ IF user = {} THEN
            req' = [req EXCEPT ![r] =
                    Finish(@, ep, in,
                           ExceptException("Recommendation",
                               StrHTTPException(HTTPException(404, "User not found"))))]
       ELSE req' = [req EXCEPT ![r] =
                    [@ EXCEPT !.ep = ep, !.pc = "find_products", !.in = in, !.found = TRUE]]

\* ... and from the answer of db.products.find() to chat.send_message
RecommendationsFindProducts(r) ==
    LET n == Cardinality(products)
        found == IF n > RecommendationLimit THEN RecommendationLimit ELSE n
    IN
    /\ req[r].pc = "find_products"
    /\ UNCHANGED db
    /\ req' = [req EXCEPT ![r] = SendMessage(@, GetLlmChat(r), @.ep, @.in, FALSE, <<>>, found)]

\* GET /test-ai
TestAi(r) ==
    /\ req[r].pc = "idle"
    /\ UNCHANGED db
    /\ req' = [req EXCEPT ![r] = SendMessage(@, GetLlmChat(r), "test-ai", NoInput, FALSE, <<>>, 0)]

(***************************************************************************)
(* The end of chat.send_message: the handler resumes and returns.          *)
(***************************************************************************)

\* The "<what> failed" of each endpoint's except clause.
FailedWhat(ep) ==
    CASE ep = "analyze-product-image" -> "AI analysis"
      [] ep = "analyze-product" -> "AI analysis"
      [] ep = "generate-story-with-image" -> "Story generation"
      [] ep = "generate-story" -> "Story generation"
      [] ep = "generate-social-content" -> "Social content generation"
      [] ep = "translate" -> "Translation"
      [] ep = "recommendations" -> "Recommendation"
      [] OTHER -> ""

\* The dict each endpoint returns for the backend's answer.
ReturnedBody(q, response) ==
    CASE q.ep = "analyze-product-image" -> AnalyzeImageBody(response, q.image_base64)
      [] q.ep = "analyze-product" ->
            Body("ai_suggestions", VString(response), VAbsent, "", "success")
      [] q.ep = "generate-story-with-image" ->
            StoryImageBody(response, q.has_b64, q.image_base64)
      [] q.ep = "generate-story" ->
            Body("story_content", VString(response), VAbsent, "", "success")
      [] q.ep = "generate-social-content" ->
            Body("social_content", VString(response), VAbsent, q.in.platform, "success")
      [] q.ep = "translate" ->
            Body("translations", VString(response), VAbsent, "", "success")
      [] q.ep = "recommendations" ->
            Body("recommendations", VString(response), VAbsent, ToString(q.in.id), "success")
      [] OTHER ->
            Body("ai_response", VString(response), VAbsent, "", "success")

\* clean_response when the handler returns: the two endpoints that decode
\* the answer compute it, the others have no such local.
CleanResponseOf(ep, response) ==
    IF ep \in {"analyze-product-image", "generate-story-with-image"}
    THEN CleanResponse(response)
    ELSE <<>>

\* A handler that stores what the backend generated before it returns.
SendMessageReturnsSaved(r, response) ==
    /\ req[r].pc = "send_message"
    /\ stories' = stories \cup { [id |-> Uuid4(r)] }
    /\ UNCHANGED <<users, products>>
    /\ req' = [req EXCEPT ![r] =
            Finish([@ EXCEPT !.answered = "returned", !.response = response,
                             !.clean_response = CleanResponseOf(req[r].ep, response)],
                   @.ep, @.in, Returned(ReturnedBody(@, response)))]

\* chat.send_message returns the backend's text.
SendMessageReturns(r, response) ==
    /\ req[r].pc = "send_message"
    /\ UNCHANGED db
    /\ req' = [req EXCEPT ![r] =
            Finish([@ EXCEPT !.answered = "returned", !.response = response,
                             !.clean_response = CleanResponseOf(req[r].ep, response)],
                   @.ep, @.in, Returned(ReturnedBody(@, response)))]

\* A /test-ai whose except clause raises like the other endpoints'.
RaisedResponseAlwaysRaises(q, str_e) ==
    ExceptException("AI test", str_e)

\* An except clause that answers with an empty success envelope.
RaisedResponseSwallowed(q, str_e) ==
    Returned(Body("ai_response", VString(<<>>), VAbsent, "", "success"))

\* The response when chat.send_message raises an exception e, str_e = str(e):
\* /test-ai returns a dict, the other endpoints raise HTTPException(500).
RaisedResponse(q, str_e) ==
    IF q.ep = "test-ai"
    THEN Returned([NoBody EXCEPT !.error = str_e, !.status = "failed"])
    ELSE ExceptException(FailedWhat(q.ep), str_e)

\* A handler that sends the message again when the call raises.
SendMessageRaisesRetry(r, str_e) ==
    /\ req[r].pc = "send_message"
    /\ UNCHANGED db
    /\ req' = [req EXCEPT ![r] =
            [@ EXCEPT !.answered = "raised", !.raised = str_e, !.calls = @ + 1]]

SendMessageRaises(r, str_e) ==
    /\ req[r].pc = "send_message"
    /\ UNCHANGED db
    /\ req' = [req EXCEPT ![r] =
            Finish([@ EXCEPT !.answered = "raised", !.raised = str_e],
                   @.ep, @.in, RaisedResponse(@, str_e))]

(***************************************************************************)
(* The routes that write to the database.                                  *)
(***************************************************************************)

\* POST /auth/register, up to the answer of db.users.find_one
RegisterUser(r, email) ==
    LET ep == "register"
        in == Input(NoUpload, 0, email, "", PresentFields)
        existing_user == {u \in users : u.email = email}
    IN
    /\ req[r].pc = "idle"
    /\ UNCHANGED db
    /\ IF existing_user # {} THEN
            req' = [req EXCEPT ![r] =
                    Finish([@ EXCEPT !.found = TRUE], ep, in,
                           HTTPException(400, "Email already registered"))]
       ELSE req' = [req EXCEPT ![r] = [@ EXCEPT !.ep = ep, !.pc = "insert_one", !.in = in]]

\* ... and User(...), db.users.insert_one, return user
RegisterUserInsert(r) ==
    LET user == [id |-> Uuid4(r), email |-> req[r].in.email]
    IN
    /\ req[r].pc = "insert_one"
    /\ users' = users \cup {user}
    /\ UNCHANGED <<products, stories>>
    /\ req' = [req EXCEPT ![r] =
            Finish(@, @.ep, [@.in EXCEPT !.id = user.id],
                   Returned(Body("user", VAbsent, VAbsent, ToString(user.id), "")))]

\* POST /products
CreateProduct(r) ==
    LET product == [id |-> Uuid4(r)]
    IN
    /\ req[r].pc = "idle"
    /\ products' = products \cup {product}
    /\ UNCHANGED <<users, stories>>
    /\ req' = [req EXCEPT ![r] =
            Finish(@, "products", NoInput,
                   Returned(Body("product", VAbsent, VAbsent, ToString(product.id), "")))]

\* POST /stories
CreateStory(r) ==
    LET story == [id |-> Uuid4(r)]
    IN
    /\ req[r].pc = "idle"
    /\ stories' = stories \cup {story}
    /\ UNCHANGED <<users, products>>
    /\ req' = [req EXCEPT ![r] =
            Finish(@, "stories", NoInput,
                   Returned(Body("story", VAbsent, VAbsent, ToString(story.id), "")))]

(***************************************************************************)
(* The inputs: what clients send and what the chat backend answers.        *)
(***************************************************************************)

Quote == "\""

\* {"a":1}
JsonObject == <<"{", Quote, "a", Quote, ":", "1", "}">>

\* {"raw_response":"x"}
JsonRawLookalike ==
    <<"{", Quote>> \o RawResponseKey \o <<Quote, ":", Quote, "x", Quote, "}">>

\* Valid JSON texts.
JsonBodies ==
    { JsonObject,
      JsonRawLookalike,
      <<"{", "}">>,
      <<"{", Quote, "a", Quote, ":", " ", "[", "1", ",", "n", "u", "l", "l", "]", "}">>,
      <<"[", "1", "]">>,
      <<"1">>,
      <<Quote, "x", Quote>>,
      <<Quote, Tick, Tick, Tick, Quote>>,
      <<"t", "r", "u", "e">>,
      <<"n", "u", "l", "l">> }

\* Texts json.loads refuses.
NonJsonBodies ==
    { <<>>,
      <<"h", "i">>,
      <<"{", Quote, "a", Quote, ":", "1">>,
      <<"{", Quote, "a", Quote, ":", "1", "}", "x">>,
      <<"{", Quote, "a", Quote, ":", "1", ",", "}">>,
      <<"j", "s", "o", "n">> }

\* The longest run of whitespace around a backend text.
MaxWs == 1

WsRuns == UNION { [1 .. k -> {" ", "\n"}] : k \in 0 .. MaxWs }

\* What may stand before and after the body of a backend text.
Openers == { <<>>, FenceOpen, FenceClose }

Closers == { <<>>, FenceClose }

Gaps == { <<>>, <<"\n">> }

\* The backend texts of the single-request specification.
AllTexts ==
    { lead \o open \o gap \o body \o gap \o close \o trail :
        lead \in WsRuns, open \in Openers, gap \in Gaps,
        body \in JsonBodies \cup NonJsonBodies,
        close \in Closers, trail \in Gaps }

\* The backend texts of the concurrent specification.
CoreTexts ==
    { FenceOpen \o <<"\n">> \o JsonObject \o <<"\n">> \o FenceClose, <<"h", "i">> }

\* str(e) of the exceptions chat.send_message raises.
BackendErrors == { "Request timed out." }

\* The largest uploaded image, in bytes: 76 bytes encode to more than
\* PreviewLen characters.
MaxImageLen == 76

ImageBytes(n) == [i \in 1 .. n |-> (i * 37) % 256]

ImagePng == <<"i", "m", "a", "g", "e", "/", "p", "n", "g">>

TextPlain == <<"t", "e", "x", "t", "/", "p", "l", "a", "i", "n">>

CoreUploads ==
    { UploadFile(ImagePng, ImageBytes(1)), UploadFile(TextPlain, ImageBytes(1)),
      UploadFileNoType(ImageBytes(1)), NoUpload }

AllUploads ==
    CoreUploads
    \cup { UploadFile(ImagePng, ImageBytes(MaxImageLen)),
           UploadFile(ImagePrefix, <<>>),
           UploadFile(<<"i", "m", "a", "g", "e">>, ImageBytes(1)) }

FieldStates == { "missing", "empty", "present" }

AllFields ==
    { StoryFields(a, c, t) : a \in FieldStates, c \in FieldStates, t \in FieldStates }

CoreFields ==
    { PresentFields, StoryFields("empty", "present", "present"),
      StoryFields("present", "present", "missing") }

\* The inputs of the concurrent specification and of the single-request
\* one: texts answers an endpoint that decodes the backend's text,
\* relayed one that returns it as it is.
CoreInputs ==
    [texts |-> CoreTexts, relayed |-> CoreTexts, uploads |-> CoreUploads,
     fields |-> CoreFields, ids |-> { 0 }, emails |-> { "a@example.com" },
     platforms |-> { "instagram" }]

AllInputs ==
    [texts |-> AllTexts, relayed |-> CoreTexts, uploads |-> AllUploads,
     fields |-> AllFields, ids |-> { 0, 1 },
     emails |-> { "a@example.com", "b@example.com" },
     platforms |-> { "instagram", "linkedin" }]

DecodingEndpoints == { "analyze-product-image", "generate-story-with-image" }

TextsFor(I, ep) == IF ep \in DecodingEndpoints THEN I.texts ELSE I.relayed

(***************************************************************************)
(* The specifications.                                                     *)
(***************************************************************************)

\* The database holds what earlier runs left in it.
Init ==
    /\ users \in SUBSET { [id |-> 0, email |-> "a@example.com"] }
    /\ products \in SUBSET { [id |-> 0] }
    /\ stories = {}
    /\ req = [r \in Requests |-> Idle]

\* One step of request r with inputs drawn from I.
Step(r, I) ==
    \/ \E image \in I.uploads : AnalyzeUploadedProductImage(r, image)
    \/ AnalyzeProductImage(r)
    \/ \E image \in I.uploads : GenerateStoryWithImage(r, image)
    \/ \E fields \in I.fields : GenerateArtisanStory(r, fields)
    \/ \E id \in I.ids, platform \in I.platforms : GenerateSocialMediaContent(r, id, platform)
    \/ TranslateContent(r)
    \/ \E id \in I.ids : GetPersonalizedRecommendations(r, id)
    \/ RecommendationsFindProducts(r)
    \/ TestAi(r)
    \/ \E response \in TextsFor(I, req[r].ep) : SendMessageReturns(r, response)
    \/ \E str_e \in BackendErrors : SendMessageRaises(r, str_e)
    \/ \E email \in I.emails : RegisterUser(r, email)
    \/ RegisterUserInsert(r)
    \/ CreateProduct(r)
    \/ CreateStory(r)

\* Requests arrive at any time and their handlers interleave at the awaits.
Next == \E r \in Requests : Step(r, CoreInputs)

Spec == Init /\ [][Next]_vars

\* One request, with every input of AllInputs.
NextOne == Step(1, AllInputs)

OneRequestSpec == Init /\ [][NextOne]_vars

\* The event loop resumes a handler whose database query has answered;
\* nothing makes a client send a request or the chat backend answer one.
Fairness ==
    \A r \in Requests :
        /\ WF_vars(RecommendationsFindProducts(r))
        /\ WF_vars(RegisterUserInsert(r))

FairSpec == Spec /\ Fairness

(***************************************************************************)
(* The claims.                                                             *)
(***************************************************************************)

\* What a claim says of a request.
Decodes(text) == JsonLoads(CleanResponse(text)).ok

IsSuccess(q) == q.pc = "done" /\ q.resp.code = 200 /\ q.resp.body.status = "success"

\* The payload {"raw_response": text}, written out.
IsRawFallbackOf(payload, text) ==
    payload = [t |-> "object", a |-> <<>>, keys |-> <<RawResponseKey>>,
               c |-> << [t |-> "string", a |-> text, keys |-> <<>>, c |-> <<>>] >>]

LookupEndpoints == { "generate-social-content", "recommendations" }

\* C2: a generate-social-content request whose product_id matches no stored
\* product, and a recommendations request whose user_id matches no stored
\* user, end without any chat.send_message call.
C2_MissingEntityNoBackendCall ==
    \A r \in Requests :
        LET q == req[r] IN
        (q.ep \in LookupEndpoints /\ q.pc # "idle" /\ ~q.found)
            => q.pc = "done" /\ q.calls = 0 /\ q.answered = ""

\* One request of each kind ended on a missing entity, no call made.
C2_Witness ==
    \E r1, r2 \in Requests :
        /\ req[r1].ep = "generate-social-content" /\ req[r2].ep = "recommendations"
        /\ \A r \in {r1, r2} : req[r].pc = "done" /\ ~req[r].found /\ req[r].calls = 0
        /\ ~ \E p \in products : p.id = req[r1].in.id
        /\ ~ \E u \in users : u.id = req[r2].in.id

\* C3: a rejection made before the backend call keeps its own outcome: a
\* missing product or user is a 404, a non-image attachment a 400, and only
\* a failed backend call gives a 500.
C3_TypedRejections ==
    \A r \in Requests :
        LET q == req[r]
            image == q.in.image
        IN q.pc = "done" =>
            /\ (q.ep \in LookupEndpoints /\ ~q.found) => q.resp.code = 404
            /\ (/\ q.ep \in DecodingEndpoints
                /\ image.present /\ image.has_type
                /\ ~StartsWith(image.content_type, ImagePrefix)) => q.resp.code = 400
            /\ q.resp.code = 500 => q.answered = "raised"

\* content_type.startswith('image/'), written out.
IsImageType(content_type) ==
    /\ Len(content_type) >= 6
    /\ SubSeq(content_type, 1, 6) = <<"i", "m", "a", "g", "e", "/">>

\* C4: an attachment whose declared media type does not start with "image/"
\* is rejected, with no success envelope and no backend call; one whose
\* type starts with "image/" goes on to the backend call.
C4_AttachmentValidation ==
    \A r \in Requests :
        LET q == req[r]
            image == q.in.image
        IN (q.ep \in DecodingEndpoints /\ q.pc # "idle" /\ image.present /\ image.has_type)
            => IF IsImageType(image.content_type)
               THEN q.calls = 1
               ELSE /\ q.pc = "done" /\ q.calls = 0 /\ q.answered = ""
                    /\ ~IsSuccess(q) /\ q.resp.code >= 400

\* A text/plain attachment was rejected before any call.
C4_Witness ==
    \E r \in Requests :
        LET q == req[r] IN
        /\ q.ep \in DecodingEndpoints
        /\ q.in.image.present /\ q.in.image.content_type = TextPlain
        /\ q.pc = "done" /\ q.calls = 0 /\ q.resp.code >= 400

AIEndpoints ==
    { "analyze-product-image", "analyze-product", "generate-story-with-image",
      "generate-story", "generate-social-content", "translate", "recommendations",
      "test-ai" }

\* C5: a request calls chat.send_message at most once; one that returns
\* status "success" called it exactly once; a call that raised is followed
\* by no second call.
C5_AtMostOneBackendCall ==
    \A r \in Requests :
        LET q == req[r] IN
        /\ q.calls <= 1
        /\ (q.ep \in AIEndpoints /\ IsSuccess(q)) => (q.calls = 1 /\ q.answered = "returned")
        /\ q.answered = "raised" => (q.pc = "done" /\ q.calls = 1)

\* A call raised and the request ended after that one call.
C5_Witness ==
    \E r \in Requests :
        req[r].answered = "raised" /\ req[r].pc = "done" /\ req[r].calls = 1

FailureKinds ==
    { "AI analysis", "Story generation", "Social content generation", "Translation",
      "Recommendation" }

\* C6, as stated: when chat.send_message raises, the request ends with HTTP
\* 500 and the detail "<kind> failed: <error>", never with a success
\* envelope.
C6_BackendFailureIs500 ==
    \A r \in Requests :
        LET q == req[r] IN
        q.answered = "raised" =>
            /\ q.pc = "done" /\ ~IsSuccess(q)
            /\ q.resp.code = 500
            /\ \E kind \in FailureKinds : q.resp.detail = kind \o " failed: " \o q.raised

\* C6, amended: that holds of every AI endpoint but GET /test-ai, which
\* answers 200 with status "failed" and the error message; no endpoint
\* returns a success envelope.
C6_BackendFailureNeverSuccess ==
    \A r \in Requests :
        LET q == req[r] IN
        q.answered = "raised" =>
            /\ q.pc = "done" /\ ~IsSuccess(q)
            /\ IF q.ep = "test-ai"
               THEN /\ q.resp.code = 200
                    /\ q.resp.body.status = "failed"
                    /\ q.resp.body.error = q.raised
               ELSE /\ q.resp.code = 500
                    /\ q.resp.body = NoBody
                    /\ \E kind \in FailureKinds :
                            q.resp.detail = kind \o " failed: " \o q.raised

\* The call of a generation endpoint raised and the request ended in a 500.
C6_Witness ==
    \E r \in Requests :
        LET q == req[r] IN
        /\ q.ep = "analyze-product-image" /\ q.answered = "raised" /\ q.pc = "done"
        /\ q.resp.code = 500
        /\ q.resp.detail = "AI analysis failed: " \o q.raised

\* C7: the backend call is bounded by a timeout: a request waiting for
\* chat.send_message always ends, whether or not the backend answers.
C7_BackendCallBounded ==
    \A r \in Requests : (req[r].pc = "send_message") ~> (req[r].pc = "done")

\* The texts that wrap body in the opening and closing marker, with
\* optional whitespace around each part.
FencedTexts(body) ==
    { lead \o FenceOpen \o before \o body \o after \o FenceClose \o trail :
        lead \in WsRuns, before \in Gaps, after \in Gaps, trail \in WsRuns }

\* C8: for a backend text made of the opening marker, valid JSON and the
\* closing marker, the result is the decoded JSON and equals the result for
\* the unwrapped JSON alone.
C8_FenceStrippingRoundTrip ==
    \A r \in Requests : \A body \in JsonBodies :
        LET q == req[r] IN
        (q.ep \in DecodingEndpoints /\ q.answered = "returned"
            /\ q.response \in FencedTexts(body))
            => /\ IsSuccess(q)
               /\ JsonLoads(body).ok
               /\ q.resp.body.payload = JsonLoads(body).v
               /\ q.resp.body = ReturnedBody(q, body)

\* A fenced object with whitespace around it came back decoded.
C8_Witness ==
    \E r \in Requests :
        LET q == req[r] IN
        /\ q.ep \in DecodingEndpoints /\ q.answered = "returned"
        /\ q.response \in FencedTexts(JsonObject)
        /\ q.response # Strip(q.response)
        /\ q.resp.body.payload = JsonLoads(JsonObject).v
        /\ q.resp.body.payload.t = "object"

\* A payload of the shape {"raw_response": <text>}.
HasRawShape(payload) ==
    /\ payload.t = "object"
    /\ payload.keys = <<RawResponseKey>>
    /\ payload.c[1].t = "string"

\* C9: the envelope has the raw-fallback shape if and only if the backend
\* text failed to decode.
C9_RawShapeIffUndecodable ==
    \A r \in Requests :
        LET q == req[r] IN
        (q.ep \in DecodingEndpoints /\ q.answered = "returned")
            => (HasRawShape(q.resp.body.payload) <=> ~Decodes(q.response))

\* C10: a generate-story request whose artisan name, craft type or free
\* text is missing or empty is rejected before any backend call; the
\* backend is called only when all three are present and non-empty.
C10_RequiredFieldsNonEmpty ==
    \A r \in Requests :
        LET q == req[r]
            f == q.in.fields
            complete == /\ f.artisan_name = "present"
                        /\ f.craft_type = "present"
                        /\ f.simple_text = "present"
        IN (q.ep = "generate-story" /\ q.pc # "idle") =>
            /\ ~complete => (q.pc = "done" /\ q.calls = 0 /\ q.resp.code \in {400, 422})
            /\ q.calls > 0 => complete

\* C11: GET /test-ai always answers 200: {ai_response, status "success"}
\* when chat.send_message returned, and status "failed" with the error
\* message when it raised.
C11_TestAiNeverFails ==
    \A r \in Requests :
        LET q == req[r] IN
        (q.ep = "test-ai" /\ q.pc = "done") =>
            /\ q.resp.code = 200
            /\ q.answered \in {"returned", "raised"}
            /\ q.answered = "returned" =>
                    /\ q.resp.body.key = "ai_response"
                    /\ q.resp.body.payload = [t |-> "string", a |-> q.response,
                                              keys |-> <<>>, c |-> <<>>]
                    /\ q.resp.body.status = "success"
            /\ q.answered = "raised" =>
                    /\ q.resp.body.status = "failed"
                    /\ q.resp.body.error = q.raised
                    /\ q.resp.body.payload = VAbsent

\* One /test-ai call raised and one returned; both were answered 200.
C11_Witness ==
    \E r1, r2 \in Requests :
        /\ req[r1].ep = "test-ai" /\ req[r1].answered = "raised"
        /\ req[r1].resp.code = 200 /\ req[r1].resp.body.status = "failed"
        /\ req[r2].ep = "test-ai" /\ req[r2].answered = "returned"
        /\ req[r2].resp.code = 200 /\ req[r2].resp.body.status = "success"

\* The text between positions from and to of s.
Between(s, from, to) == IF from > to THEN <<>> ELSE SubSeq(s, from, to)

\* C12, as stated: the leading ```json and the trailing ``` are removed
\* only when both are present; a text with just one of them reaches the
\* decoder with that marker still in it.
C12_MarkersStrippedOnlyTogether ==
    \A r \in Requests :
        LET q == req[r]
            s == Strip(q.response)
            lead == StartsWith(s, FenceOpen)
            trail == EndsWith(s, FenceClose)
        IN (q.ep \in DecodingEndpoints /\ q.answered = "returned") =>
            IF lead /\ trail
            THEN q.clean_response = Strip(Between(s, 8, Len(s) - 3))
            ELSE q.clean_response = s

\* C12, amended: each marker is removed when it is present, whether or not
\* the other is; a text with just one of them reaches the decoder without
\* it.
C12_MarkersStrippedIndependently ==
    \A r \in Requests :
        LET q == req[r]
            s == Strip(q.response)
            lead == StartsWith(s, FenceOpen)
            trail == EndsWith(s, FenceClose)
        IN (q.ep \in DecodingEndpoints /\ q.answered = "returned") =>
            /\ (lead /\ trail) => q.clean_response = Strip(Between(s, 8, Len(s) - 3))
            /\ (lead /\ ~trail) => q.clean_response = Strip(Between(s, 8, Len(s)))
            /\ (~lead /\ trail) => q.clean_response = Strip(Between(s, 1, Len(s) - 3))
            /\ (~lead /\ ~trail) => q.clean_response = s

\* A text with the leading marker alone was decoded as the object inside.
C12_Witness ==
    \E r \in Requests :
        LET q == req[r]
            s == Strip(q.response)
        IN /\ q.ep \in DecodingEndpoints /\ q.answered = "returned"
           /\ StartsWith(s, FenceOpen) /\ ~EndsWith(s, FenceClose)
           /\ q.clean_response = JsonObject
           /\ q.resp.body.payload = JsonLoads(JsonObject).v

\* C13: a payload returned in other than the raw-fallback form is an object
\* with string keys; a backend text that decodes to an array, a number, a
\* string, a boolean or null is not returned as its decoded value.
C13_StructuredIsObject ==
    \A r \in Requests :
        LET q == req[r]
            payload == q.resp.body.payload
        IN (q.ep \in DecodingEndpoints /\ q.answered = "returned") =>
            /\ ~HasRawShape(payload) => payload.t = "object"
            /\ (Decodes(q.response) /\ JsonLoads(q.clean_response).v.t # "object")
                    => payload # JsonLoads(q.clean_response).v

\* Where a request stands on the path Received, Validated, PromptBuilt,
\* BackendInvoked, Normalized, Returned, as far as a state shows it: the
\* handler runs from one await to the next in one step, so PromptBuilt and
\* Normalized are passed within a step.
Phase(q) ==
    CASE q.pc = "idle" -> "Received"
      [] q.pc = "find_products" -> "Validated"
      [] q.pc = "send_message" -> "BackendInvoked"
      [] q.pc = "done" /\ q.resp.code = 200 /\ q.resp.body.status # "failed" -> "Returned"
      [] OTHER -> "Failed"

\* The steps the path allows, intermediate phases passed on the way.
PathSteps ==
    { <<"Received", "Validated">>, <<"Received", "BackendInvoked">>,
      <<"Validated", "BackendInvoked">>, <<"BackendInvoked", "Returned">>,
      <<"Received", "Failed">>, <<"BackendInvoked", "Failed">> }

\* The order of the path: no step back, none skipped, Failed entered only
\* from validation or from the backend call, Returned and Failed final.
C14_PathOrder ==
    [][\A r \in Requests :
            (req'[r].ep \in AIEndpoints /\ req'[r] # req[r])
                => <<Phase(req[r]), Phase(req'[r])>> \in PathSteps]_vars

\* Every request that arrived ends.
C14_EveryRequestEnds ==
    \A r \in Requests :
        (req[r].ep \in AIEndpoints /\ req[r].pc # "idle") ~> (req[r].pc = "done")

\* C14: a request moves through Received, Validated, PromptBuilt,
\* BackendInvoked, Normalized, Returned in that order, leaves the path only
\* to Failed and only from validation or the backend call, and always ends
\* in Returned or in Failed.
C14_RequestStateMachine == C14_PathOrder /\ C14_EveryRequestEnds

\* The requests that have arrived are all AI requests, so none of them
\* writes to the stored data.
OnlyAIRequests == \A r \in Requests : req[r].ep \in AIEndpoints \cup { "" }

\* The response request q gets running alone: a handler that starts from
\* q's parameters and is given q's backend outcome.
AloneResponse(q) ==
    LET alone == [Idle EXCEPT !.ep = q.ep, !.in = q.in,
                              !.has_b64 = q.in.image.present,
                              !.image_base64 = B64Encode(q.in.image.data)]
    IN IF q.answered = "returned"
       THEN Returned(ReturnedBody(alone, q.response))
       ELSE RaisedResponse(alone, q.raised)

\* C15: no session_id is used by two requests or for two backend calls,
\* and over the same stored data the response of a request is the one it
\* gets running alone with the same backend outcome, however the requests
\* interleave.
C15_ConcurrentRequestsIndependent ==
    /\ \A r1, r2 \in Requests :
            (r1 # r2 /\ req[r1].session # 0 /\ req[r2].session # 0)
                => req[r1].session # req[r2].session
    /\ \A r \in Requests : req[r].calls <= 1 /\ (req[r].calls = 1 => req[r].session # 0)
    /\ OnlyAIRequests =>
            \A r1, r2 \in Requests :
                LET q1 == req[r1]
                    q2 == req[r2]
                IN /\ (q1.pc = "done" /\ q1.answered # "") => q1.resp = AloneResponse(q1)
                   /\ (/\ q1.pc = "done" /\ q2.pc = "done"
                       /\ q1.ep = q2.ep /\ q1.in = q2.in
                       /\ q1.answered = q2.answered /\ q1.response = q2.response
                       /\ q1.raised = q2.raised) => q1.resp = q2.resp

\* Two requests to the same endpoint, each with a session of its own: one
\* has its answer while the other still waits for the backend.
C15_Witness ==
    \E r1, r2 \in Requests :
        /\ OnlyAIRequests
        /\ req[r1].ep = "generate-story-with-image" /\ req[r2].ep = req[r1].ep
        /\ req[r1].pc = "done" /\ req[r1].answered = "returned"
        /\ req[r2].pc = "send_message"
        /\ req[r1].session # 0 /\ req[r2].session # 0
        /\ req[r1].session # req[r2].session

\* C16: a step of an AI request, whether the request succeeds or fails,
\* leaves the stored users, products and stories as they were.
C16_AIRequestsOnlyRead ==
    [][(\E r \in Requests : req'[r] # req[r] /\ req'[r].ep \in AIEndpoints)
            => UNCHANGED db]_vars

\* Over stored data, a recommendations request got its answer and a
\* generate-social-content request failed at the backend; the data is as
\* it was.
C16_Witness ==
    \E r1, r2 \in Requests :
        /\ OnlyAIRequests
        /\ req[r1].ep = "recommendations" /\ req[r1].pc = "done" /\ IsSuccess(req[r1])
        /\ req[r2].ep = "generate-social-content" /\ req[r2].answered = "raised"
        /\ users = { [id |-> 0, email |-> "a@example.com"] }
        /\ products = { [id |-> 0] }
        /\ stories = {}

\* C17: a successful generate-story-with-image envelope carries a preview
\* if and only if the request had an attachment, a zero-byte one included;
\* the preview holds no more than the first 100 characters of the encoded
\* image; with no attachment there is no preview value, decoded answer or
\* raw fallback alike.
C17_PreviewIffAttachment ==
    \A r \in Requests :
        LET q == req[r]
            preview == q.resp.body.image
            encoded == B64Encode(q.in.image.data)
            shown == IF Len(encoded) > 100 THEN SubSeq(encoded, 1, 100) ELSE encoded
        IN (q.ep = "generate-story-with-image" /\ IsSuccess(q)) =>
            /\ q.in.image.present <=> preview.t = "string"
            /\ preview.t = "string" =>
                    preview.a = DataUrlPrefix \o shown \o <<".", ".", ".">>
            /\ ~q.in.image.present => preview \in { VAbsent, VNone }

\* C18: at most one stored user has a given email, however register
\* requests interleave: a request for a stored email is rejected with
\* "Email already registered" and inserts nothing, and two overlapping
\* requests for the same new email do not both insert.
C18_EmailUnique ==
    /\ \A u1, u2 \in users : u1.email = u2.email => u1 = u2
    /\ \A r \in Requests :
            (req[r].ep = "register" /\ req[r].pc = "done" /\ req[r].found) =>
                /\ req[r].resp.code = 400
                /\ req[r].resp.detail = "Email already registered"
                /\ ~ \E u \in users : u.id = Uuid4(r)

=============================================================================
